---- MODULE Spec2Model ----
(***************************************************************************)
(* Model of src/manage_clients.py: the client store (one JSON file per     *)
(* client plus contador.txt in the directory sky_clientes), the in-memory  *)
(* cache `clientes`, the counter CONTADOR_CLIENTE and the menu operations. *)
(*                                                                         *)
(* A Python str is a sequence of one-character strings, so that slicing,   *)
(* strip, replace, lower/upper, formatting and parsing are computed as the *)
(* code computes them.                                                     *)
(***************************************************************************)
EXTENDS Integers, Sequences, FiniteSets, TLC

VARIABLES
    archivos,          \* record files of CLIENTES_DIR: file name -> content
    contadorTxt,       \* CONTADOR_FILE: [existe, texto]
    CONTADOR_CLIENTE,  \* the global counter of the process
    clientes,          \* the in-memory dict `clientes`: cliente_id -> record
    ahora,             \* the wall clock read by datetime.now()
    pc,                \* "apagado": no process; "menu": at the menu prompt;
                       \* "hecho": an operation has just returned to the loop
    entrada,           \* the last menu operation and the lines it read with input()
    out,               \* what the last operation printed: set of <<text, cliente_id>>
    emitidos,          \* history: the numbers returned by generate_cliente_number
    phone,             \* argument of validate_phone in SpecValidate
    phoneResult        \* its result: "pendiente", "true" or "false"

vars == <<archivos, contadorTxt, CONTADOR_CLIENTE, clientes, ahora, pc,
          entrada, out, emitidos, phone, phoneResult>>

\* ------------------------------------------------------------------ bounds

\* Creates are explored while CONTADOR_CLIENTE is below this cap.
MaxContador == 2

\* Updates are explored while the service list is shorter than this cap.
MaxServicios == 2

\* The clock is advanced up to this day of the month.
UltimoDia == 3

\* Longest argument given to validate_phone in SpecValidate.
MaxTelefono == 11

\* ------------------------------------------------------- Python str helpers

Digitos == <<"0", "1", "2", "3", "4", "5", "6", "7", "8", "9">>

Minusculas == <<"a", "b", "c", "d", "e", "f", "g", "h", "i", "j", "k", "l", "m",
                "n", "o", "p", "q", "r", "s", "t", "u", "v", "w", "x", "y", "z">>

Mayusculas == <<"A", "B", "C", "D", "E", "F", "G", "H", "I", "J", "K", "L", "M",
                "N", "O", "P", "Q", "R", "S", "T", "U", "V", "W", "X", "Y", "Z">>

Range(s) == {s[i] : i \in 1..Len(s)}

\* Characters str.strip() removes.
Blancos == {" ", "\t", "\n", "\r"}

\* str.upper() / str.lower() of one character (ASCII letters; others unchanged).
TablaUpper ==
    [c \in Range(Minusculas) |->
        Mayusculas[CHOOSE i \in 1..Len(Minusculas) : Minusculas[i] = c]]

TablaLower ==
    [c \in Range(Mayusculas) |->
        Minusculas[CHOOSE i \in 1..Len(Mayusculas) : Mayusculas[i] = c]]

UpperChar(c) == IF c \in DOMAIN TablaUpper THEN TablaUpper[c] ELSE c

LowerChar(c) == IF c \in DOMAIN TablaLower THEN TablaLower[c] ELSE c

Upper(s) == [i \in 1..Len(s) |-> UpperChar(s[i])]

Lower(s) == [i \in 1..Len(s) |-> LowerChar(s[i])]

\* str.capitalize(): first character upper-cased, the rest lower-cased.
Capitalize(s) == [i \in 1..Len(s) |-> IF i = 1 THEN UpperChar(s[i]) ELSE LowerChar(s[i])]

\* str.strip()
Strip(s) ==
    IF \A i \in 1..Len(s) : s[i] \in Blancos THEN <<>>
    ELSE SubSeq(s,
                CHOOSE i \in 1..Len(s) :
                    s[i] \notin Blancos /\ \A j \in 1..(i - 1) : s[j] \in Blancos,
                CHOOSE i \in 1..Len(s) :
                    s[i] \notin Blancos /\ \A j \in (i + 1)..Len(s) : s[j] \in Blancos)

\* sub occurs in s at position i.
OccursAt(s, sub, i) ==
    /\ i >= 1
    /\ i + Len(sub) - 1 <= Len(s)
    /\ \A k \in 1..Len(sub) : s[i + k - 1] = sub[k]

\* str.startswith / str.endswith
StartsWith(s, p) == OccursAt(s, p, 1)

EndsWith(s, p) == OccursAt(s, p, Len(s) - Len(p) + 1)

\* `sub in s`
Contains(s, sub) == \E i \in 1..(Len(s) - Len(sub) + 1) : OccursAt(s, sub, i)

\* str.replace(old, new) for a non-empty old: every non-overlapping
\* occurrence, left to right.
RECURSIVE Replace(_, _, _)
Replace(s, old, new) ==
    LET donde == {i \in 1..(Len(s) - Len(old) + 1) : s[i] = old[1] /\ OccursAt(s, old, i)}
    IN  IF donde = {} THEN s
        ELSE LET i == CHOOSE x \in donde : \A y \in donde : x <= y
             IN  SubSeq(s, 1, i - 1) \o new
                 \o Replace(SubSeq(s, i + Len(old), Len(s)), old, new)

\* str(n) for n >= 0
RECURSIVE Str(_)
Str(n) == IF n < 10 THEN <<Digitos[n + 1]>> ELSE Str(n \div 10) \o <<Digitos[(n % 10) + 1]>>

\* f"{n:0wd}": zero-padded to width w, wider when n needs more digits.
Pad(n, w) ==
    LET s == Str(n)
    IN  IF Len(s) >= w THEN s ELSE [i \in 1..(w - Len(s)) |-> "0"] \o s

DigitValue(c) == (CHOOSE i \in 1..Len(Digitos) : Digitos[i] = c) - 1

\* int(s) for a string of ASCII digits; -1 stands for ValueError.
RECURSIVE DigitsValue(_)
DigitsValue(s) ==
    IF s = <<>> THEN 0
    ELSE 10 * DigitsValue(SubSeq(s, 1, Len(s) - 1)) + DigitValue(s[Len(s)])

ParseInt(s) ==
    LET t == Strip(s)
    IN  IF t # <<>> /\ Range(t) \subseteq Range(Digitos) THEN DigitsValue(t) ELSE -1

\* --------------------------------------------------------------- validators

Letras == Range(Minusculas) \cup Range(Mayusculas)

\* The class \d, restricted to the ASCII digits.
ClaseDigito == Range(Digitos)

\* `$` of re.match: the end of the string, or just before a final newline.
\* FinDeCadena(s) is the set of lengths at which `$` matches in s.
FinDeCadena(s) ==
    {Len(s)} \cup (IF Len(s) > 0 /\ s[Len(s)] = "\n" THEN {Len(s) - 1} ELSE {})

\* bool(match(r'^\d{10}$', phone))
validate_phone(phone_) ==
    /\ 10 \in FinDeCadena(phone_)
    /\ \A i \in 1..10 : phone_[i] \in ClaseDigito

ClaseLocal == Letras \cup ClaseDigito \cup {"_", ".", "+", "-"}

ClaseDominio == Letras \cup ClaseDigito \cup {"-"}

ClaseTld == Letras \cup ClaseDigito \cup {"-", "."}

\* bool(match(r'^[a-zA-Z0-9_.+-]+@[a-zA-Z0-9-]+\.[a-zA-Z0-9-.]+$', email))
validate_email(email) ==
    \E fin \in FinDeCadena(email) :
        \E i \in 2..fin : \E j \in (i + 2)..(fin - 1) :
            /\ email[i] = "@"
            /\ email[j] = "."
            /\ \A k \in 1..(i - 1) : email[k] \in ClaseLocal
            /\ \A k \in (i + 1)..(j - 1) : email[k] \in ClaseDominio
            /\ \A k \in (j + 1)..fin : email[k] \in ClaseTld

\* ------------------------------------------------------------------- store

PREFIJO == <<"c", "l", "i", "e", "n", "t", "e", "_">>

SUFIJO == <<".", "j", "s", "o", "n">>

\* Name of CONTADOR_FILE inside CLIENTES_DIR.
CONTADOR_FILE == <<"c", "o", "n", "t", "a", "d", "o", "r", ".", "t", "x", "t">>

\* f"cliente_{cliente_id}.json"
Ruta(cliente_id) == PREFIJO \o cliente_id \o SUFIJO

\* archivo.replace("cliente_", "").replace(".json", "")
IdDeArchivo(archivo) == Replace(Replace(archivo, PREFIJO, <<>>), SUFIJO, <<>>)

\* listdir(CLIENTES_DIR): the record files and, once written, contador.txt.
Listdir == DOMAIN archivos \cup (IF contadorTxt.existe THEN {CONTADOR_FILE} ELSE {})

\* path.exists(path.join(CLIENTES_DIR, nombre))
Existe(nombre) == nombre \in Listdir

\* What a write that fails after open(..., 'w') truncated the file leaves behind:
\* a file json.load cannot parse.
Truncado ==
    [json |-> FALSE,
     datos |-> [nombre |-> <<>>, apellido |-> <<>>, tipo |-> <<>>, contacto |-> <<>>,
                servicios |-> <<>>, fecha_registro |-> <<>>, numero_cliente |-> <<>>]]

\* Outcomes of writing a file: written, open() failed (file untouched), or the
\* write failed after open() truncated it.
ResultadosEscritura == {"ok", "noabre", "trunca"}

\* The directory after guardar_cliente's open/dump with the given outcome.
Escribe(dir, cliente_id, cliente_data, resultado) ==
    IF resultado = "noabre" THEN dir
    ELSE [f \in DOMAIN dir \cup {Ruta(cliente_id)} |->
            IF f = Ruta(cliente_id)
            THEN (IF resultado = "ok" THEN [json |-> TRUE, datos |-> cliente_data]
                  ELSE Truncado)
            ELSE dir[f]]

\* What guardar_cliente prints.
MensajeGuardar(cliente_id, resultado) ==
    IF resultado = "ok" THEN {<<"Cliente guardado exitosamente.", cliente_id>>}
    ELSE {<<"Error al guadar al cliente", cliente_id>>}

\* cargar_cliente: the set holding the loaded record, empty for None.
cargar_cliente(cliente_id) ==
    IF Existe(Ruta(cliente_id)) /\ Ruta(cliente_id) \in DOMAIN archivos
       /\ archivos[Ruta(cliente_id)].json
    THEN {archivos[Ruta(cliente_id)].datos}
    ELSE {}

\* The (cliente_id, cliente) pairs buscar_clientes, listar_clientes and the
\* start-up scan iterate over: the loadable record files of the directory.
Cargados ==
    UNION {LET cliente_id == IdDeArchivo(f)
           IN  {<<cliente_id, c>> : c \in cargar_cliente(cliente_id)} :
            f \in {g \in Listdir : StartsWith(g, PREFIJO) /\ EndsWith(g, SUFIJO)}}

\* f"{cliente['nombre']} {cliente['apellido']}"
NombreCompleto(cliente) == cliente.nombre \o <<" ">> \o cliente.apellido

\* buscar_clientes: the matches, as a set (listdir order is unspecified).
Coincide(cliente_id, cliente, criterio, valor) ==
    \/ criterio = "numero" /\ Lower(cliente.numero_cliente) = Lower(valor)
    \/ criterio = "id" /\ cliente_id = valor
    \/ criterio = "nombre" /\ Contains(Lower(NombreCompleto(cliente)), Lower(valor))

\* The filter of buscar_clientes over the loaded pairs.
buscar_en(cargados, criterio, valor) ==
    {p \in cargados : Coincide(p[1], p[2], criterio, valor)}

buscar_clientes(criterio, valor) == buscar_en(Cargados, criterio, valor)

\* ---------------------------------------------------------------- generators

\* datetime.now().strftime('%Y%m%d')
FechaId(t) == Pad(t.anio, 4) \o Pad(t.mes, 2) \o Pad(t.dia, 2)

\* datetime.now().strftime('%Y-%m-%d %H:%M:%S')
FechaRegistro(t) ==
    Pad(t.anio, 4) \o <<"-">> \o Pad(t.mes, 2) \o <<"-">> \o Pad(t.dia, 2) \o <<" ">>
    \o Pad(t.hora, 2) \o <<":">> \o Pad(t.minuto, 2) \o <<":">> \o Pad(t.segundo, 2)

\* (nombre[0] + (apellido[0] if apellido else '')).upper()
Iniciales(nombre, apellido) ==
    Upper(<<nombre[1]>> \o (IF apellido # <<>> THEN <<apellido[1]>> ELSE <<>>))

\* f"{iniciales}_{fecha}"
BaseId(nombre, apellido) == Iniciales(nombre, apellido) \o <<"_">> \o FechaId(ahora)

\* The while loop of generate_unique_id, entered with unique_id and counter.
RECURSIVE BuscaLibre(_, _, _)
BuscaLibre(base_id, unique_id, counter) ==
    IF Existe(Ruta(unique_id))
    THEN BuscaLibre(base_id, base_id \o <<"_">> \o Str(counter), counter + 1)
    ELSE unique_id

\* Fault model for C1: the identifier without the collision loop.
generate_unique_id_SinBucle(nombre, apellido) == BaseId(nombre, apellido)

generate_unique_id(nombre, apellido) ==
    BuscaLibre(BaseId(nombre, apellido), BaseId(nombre, apellido), 1)

\* Fault model for C10: the counter is not incremented.
SiguienteContador_SinIncremento(c) == c

\* CONTADOR_CLIENTE += 1
SiguienteContador(c) == c + 1

\* f"C{CONTADOR_CLIENTE:03d}"
FormatoNumero(c) == <<"C">> \o Pad(c, 3)

\* int(cliente['numero_cliente'].replace("C", ""))
NumeroDe(numero_cliente) == ParseInt(Replace(numero_cliente, <<"C">>, <<>>))

\* ------------------------------------------------------------------ inputs

\* Lines typed at the prompts, before .strip().
NombresIn == {<<"A", "n", "a">>, <<" ", "a", "l">>, <<" ", " ">>}

ApellidosIn == {<<"P", "a", "z">>, <<>>}

TiposIn == {<<"p", "e", "r", "s", "o", "n", "a">>, <<"O", "t", "r", "o">>}

ContactosIn == {<<"a", "@", "b", ".", "c">>, <<"n", "o", "t", "a", "n", "e", "m", "a", "i", "l">>}

ServiciosIn == {<<"t", "v">>, <<"n", "e", "t">>, <<" ">>}

CriteriosIn == {<<"1">>, <<"2">>, <<"3">>, <<"9">>}

\* The values typed for a search, by criterion.
ValoresIn(criterio) ==
    IF criterio = <<"1">> THEN {<<"c", "0", "0", "1">>}
    ELSE IF criterio = <<"2">>
         THEN {IdDeArchivo(f) : f \in DOMAIN archivos} \cup {<<"Z", "Z", "_", "0">>}
    ELSE IF criterio = <<"3">> THEN {<<"A">>, <<"a", "n", "a">>}
    ELSE {<<>>}

\* ["Persona", "Negocio"]
TIPOS == {<<"P", "e", "r", "s", "o", "n", "a">>, <<"N", "e", "g", "o", "c", "i", "o">>}

\* ------------------------------------------------------------------- state

SinArchivos == [f \in {} |-> Truncado]

SinClientes == [i \in {} |-> Truncado.datos]

\* The directory CLIENTES_DIR exists and is empty, `clientes` is {} and the
\* counter initialisation at the end of the module has not run yet.
Init ==
    /\ archivos = SinArchivos
    /\ contadorTxt = [existe |-> FALSE, texto |-> <<>>]
    /\ CONTADOR_CLIENTE = 0
    /\ clientes = SinClientes
    /\ ahora = [anio |-> 2025, mes |-> 6, dia |-> 2, hora |-> 9, minuto |-> 30, segundo |-> 0]
    /\ pc = "apagado"
    /\ entrada = [op |-> "ninguna", lineas |-> <<>>]
    /\ out = {}
    /\ emitidos = <<>>
    /\ phone = <<>>
    /\ phoneResult = "pendiente"

\* The counter file after open(CONTADOR_FILE, 'w') / f.write(str(n)).
EscribeContador(txt, n, resultado) ==
    IF resultado = "ok" THEN [existe |-> TRUE, texto |-> Str(n)]
    ELSE IF resultado = "noabre" THEN txt
    ELSE [existe |-> TRUE, texto |-> <<>>]

\* Fault model for C2: the counter file is ignored when the process starts.
CargaContador_DesdeCero(texto) == 0

\* int(f.read().strip())
CargaContador(texto) == ParseInt(Strip(texto))

\* The scan for the highest customer number among the loadable records.
MaxNumero ==
    LET nums == {NumeroDe(p[2].numero_cliente) : p \in Cargados} \cup {0}
    IN  CHOOSE n \in nums : \A m \in nums : m <= n

\* Module start-up: load the counter file, or scan the records and write it.
\* An unparsable counter file raises ValueError and the process never starts.
StartUp ==
    /\ pc = "apagado"
    /\ IF contadorTxt.existe
       THEN /\ ParseInt(Strip(contadorTxt.texto)) >= 0
            /\ CONTADOR_CLIENTE' = CargaContador(contadorTxt.texto)
            /\ pc' = "menu"
            /\ UNCHANGED contadorTxt
       ELSE \E r \in ResultadosEscritura :
            /\ contadorTxt' = EscribeContador(contadorTxt, MaxNumero, r)
            /\ pc' = IF r = "ok" THEN "menu" ELSE "apagado"
            /\ CONTADOR_CLIENTE' = IF r = "ok" THEN MaxNumero ELSE 0
    /\ clientes' = SinClientes
    /\ entrada' = [op |-> "menu", lineas |-> <<>>]
    /\ out' = IF pc' = "menu" THEN {<<"=== Gestion de Clientes Sky ===", <<>>>>} ELSE {}
    /\ UNCHANGED <<archivos, ahora, emitidos, phone, phoneResult>>

\* Menu option 6: the loop ends and the process memory is gone.
Salir ==
    /\ pc = "menu"
    /\ pc' = "apagado"
    /\ CONTADOR_CLIENTE' = 0
    /\ clientes' = SinClientes
    /\ entrada' = [op |-> "salir", lineas |-> <<>>]
    /\ out' = {<<"Saliendo del sistema...", <<>>>>}
    /\ UNCHANGED <<archivos, contadorTxt, ahora, emitidos, phone, phoneResult>>

\* Any other menu option.
OpcionInvalida ==
    /\ pc = "menu"
    /\ pc' = "hecho"
    /\ entrada' = [op |-> "invalida", lineas |-> <<>>]
    /\ out' = {<<"Opcion no valida. Por favor, seleccione una opcion entre 1 y 5.", <<>>>>}
    /\ UNCHANGED <<archivos, contadorTxt, CONTADOR_CLIENTE, clientes, ahora,
                   emitidos, phone, phoneResult>>

\* The calendar day changes (the program only reads the clock).
AvanzaDia ==
    /\ ahora.dia < UltimoDia
    /\ ahora' = [ahora EXCEPT !.dia = @ + 1]
    /\ UNCHANGED <<archivos, contadorTxt, CONTADOR_CLIENTE, clientes, pc,
                   entrada, out, emitidos, phone, phoneResult>>

\* ------------------------------------------------------------------ create

\* Fault model for C3: the contact is not validated.
crear_etapa_SinContacto(l_nombre, l_apellido, l_tipo, l_contacto) ==
    IF Strip(l_nombre) = <<>> THEN "nombre"
    ELSE IF Strip(l_apellido) = <<>> THEN "apellido"
    ELSE IF Capitalize(Strip(l_tipo)) \notin TIPOS THEN "tipo"
    ELSE "ok"

\* The check at which crear_cliente returns early, "ok" when all pass.
crear_etapa(l_nombre, l_apellido, l_tipo, l_contacto) ==
    IF Strip(l_nombre) = <<>> THEN "nombre"
    ELSE IF Strip(l_apellido) = <<>> THEN "apellido"
    ELSE IF Capitalize(Strip(l_tipo)) \notin TIPOS THEN "tipo"
    ELSE IF ~validate_phone(Strip(l_contacto)) /\ ~validate_email(Strip(l_contacto))
         THEN "contacto"
    ELSE "ok"

\* How many prompts were answered before crear_cliente returned.
LineasLeidas(etapa) ==
    IF etapa = "nombre" THEN 1 ELSE IF etapa = "apellido" THEN 2
    ELSE IF etapa = "tipo" THEN 3 ELSE 4

MensajeValidacion(etapa) ==
    IF etapa = "nombre" THEN "El nombre no puede estar vacio."
    ELSE IF etapa = "apellido" THEN "El apellido no puede estar vacio."
    ELSE IF etapa = "tipo" THEN "Tipo invalido. Debe ser 'Persona' o 'Negocio'."
    ELSE "Contacto invalido."

\* The answers a run of crear_cliente can read: the prompts after the failing
\* check are never shown, so their lines are empty.
EntradasCrear ==
    {e \in NombresIn \X (ApellidosIn \cup {<<>>}) \X (TiposIn \cup {<<>>})
            \X (ContactosIn \cup {<<>>}) :
        \A k \in 1..4 :
            k > LineasLeidas(crear_etapa(e[1], e[2], e[3], e[4])) => e[k] = <<>>}

\* clientes[cliente_id] = {...}
PoneCache(cache, cliente_id, registro) ==
    [i \in DOMAIN cache \cup {cliente_id} |-> IF i = cliente_id THEN registro ELSE cache[i]]

CrearCliente ==
    /\ pc = "menu"
    /\ pc' = "hecho"
    /\ \E e \in EntradasCrear : \E etapa \in {crear_etapa(e[1], e[2], e[3], e[4])} :
        /\ entrada' = [op |-> "crear", lineas |-> SubSeq(e, 1, LineasLeidas(etapa))]
        /\ IF etapa # "ok"
           THEN /\ out' = {<<MensajeValidacion(etapa), <<>>>>}
                /\ UNCHANGED <<archivos, contadorTxt, CONTADOR_CLIENTE, clientes, emitidos>>
           ELSE /\ CONTADOR_CLIENTE < MaxContador
                /\ \E cliente_id \in {generate_unique_id(Strip(e[1]), Strip(e[2]))},
                      nuevo \in {SiguienteContador(CONTADOR_CLIENTE)},
                      rc \in ResultadosEscritura :
                    \* generate_cliente_number
                    /\ CONTADOR_CLIENTE' = nuevo
                    /\ contadorTxt' = EscribeContador(contadorTxt, nuevo, rc)
                    /\ IF rc # "ok"
                       THEN \* the IOError reaches `except Exception`
                            /\ out' = {<<"Error al crear el cliente", <<>>>>}
                            /\ UNCHANGED <<archivos, clientes, emitidos>>
                       ELSE \E rg \in ResultadosEscritura :
                            \E registro \in
                               {[nombre |-> Strip(e[1]), apellido |-> Strip(e[2]),
                                 tipo |-> Capitalize(Strip(e[3])),
                                 contacto |-> Strip(e[4]),
                                 servicios |-> <<>>,
                                 fecha_registro |-> FechaRegistro(ahora),
                                 numero_cliente |-> FormatoNumero(nuevo)]} :
                            /\ emitidos' = Append(emitidos, registro.numero_cliente)
                            /\ clientes' = PoneCache(clientes, cliente_id, registro)
                            /\ archivos' = Escribe(archivos, cliente_id, registro, rg)
                            /\ out' = MensajeGuardar(cliente_id, rg)
                                      \cup {<<"Cliente creado con ID", cliente_id>>}
    /\ UNCHANGED <<ahora, phone, phoneResult>>

\* -------------------------------------------------- read, update, delete, list

\* The criterion a menu answer selects ("" when it is none of 1, 2, 3).
CriterioDe(l_criterio) ==
    IF Strip(l_criterio) = <<"1">> THEN "numero"
    ELSE IF Strip(l_criterio) = <<"2">> THEN "id"
    ELSE IF Strip(l_criterio) = <<"3">> THEN "nombre"
    ELSE ""

\* The summary lines printed for a set of (cliente_id, cliente) pairs.
Lineas(pares) == {<<"ID", p[1]>> : p \in pares}

LeerCliente ==
    /\ pc = "menu"
    /\ pc' = "hecho"
    /\ \E cargados \in {Cargados} : \E lc \in CriteriosIn : \E lv \in ValoresIn(lc) :
       \E hallados \in {buscar_en(cargados, CriterioDe(lc), Strip(lv))} :
            IF CriterioDe(lc) = ""
            THEN /\ entrada' = [op |-> "leer", lineas |-> <<lc>>]
                 /\ out' = {<<"Opcion invalida.", <<>>>>}
            ELSE /\ entrada' = [op |-> "leer", lineas |-> <<lc, lv>>]
                 /\ out' = IF hallados # {} THEN Lineas(hallados)
                           ELSE {<<"No se encontraron clientes con ese criterio.", <<>>>>}
    /\ UNCHANGED <<archivos, contadorTxt, CONTADOR_CLIENTE, clientes, ahora,
                   emitidos, phone, phoneResult>>

\* Fault model for C7: any non-empty search result selects its first record.
Seleccion_PrimerResultado(hallados) ==
    IF hallados = {} THEN "ninguno" ELSE "uno"

\* The branch modificar_cliente and eliminar_cliente take on the search result.
Seleccion(hallados) ==
    IF hallados = {} THEN "ninguno"
    ELSE IF Cardinality(hallados) > 1 THEN "varios"
    ELSE "uno"

\* clientes_encontrados[0]
Primero(hallados) == CHOOSE p \in hallados : TRUE

\* Fault model for C5: the new service replaces the list.
AgregaServicio_Reemplaza(servicios, servicio) == <<servicio>>

\* cliente["servicios"].append(servicio)
AgregaServicio(servicios, servicio) == Append(servicios, servicio)

ModificarCliente ==
    /\ pc = "menu"
    /\ pc' = "hecho"
    /\ \E cargados \in {Cargados} : \E lc \in CriteriosIn : \E lv \in ValoresIn(lc) :
       \E hallados \in {buscar_en(cargados, CriterioDe(lc), Strip(lv))} :
       \E rama \in {Seleccion(hallados)} :
            IF CriterioDe(lc) = ""
            THEN /\ entrada' = [op |-> "modificar", lineas |-> <<lc>>]
                 /\ out' = {<<"Opcion no valida.", <<>>>>}
                 /\ UNCHANGED archivos
            ELSE IF rama = "ninguno"
            THEN /\ entrada' = [op |-> "modificar", lineas |-> <<lc, lv>>]
                 /\ out' = {<<"No se encontraron clientes con ese criterio.", <<>>>>}
                 /\ UNCHANGED archivos
            ELSE IF rama = "varios"
            THEN /\ entrada' = [op |-> "modificar", lineas |-> <<lc, lv>>]
                 /\ out' = {<<"Multiples clientes encontrados.", <<>>>>}
                           \cup Lineas(hallados)
                 /\ UNCHANGED archivos
            ELSE \E par \in {Primero(hallados)} : \E ls \in ServiciosIn :
                 /\ entrada' = [op |-> "modificar", lineas |-> <<lc, lv, ls>>]
                 /\ IF Strip(ls) = <<>>
                    THEN /\ out' = {<<"El servicio no puede estar vacio.", <<>>>>}
                         /\ UNCHANGED archivos
                    ELSE /\ Len(par[2].servicios) < MaxServicios
                         /\ \E rg \in ResultadosEscritura :
                             /\ archivos' = Escribe(archivos, par[1],
                                    [par[2] EXCEPT
                                        !.servicios = AgregaServicio(@, Strip(ls))],
                                    rg)
                             /\ out' = MensajeGuardar(par[1], rg)
                                       \cup {<<"Servicio agregado al cliente", par[1]>>}
    /\ UNCHANGED <<contadorTxt, CONTADOR_CLIENTE, clientes, ahora, emitidos,
                   phone, phoneResult>>

\* Fault model for C6: the cached copy is kept.
BorraCache_Conserva(cache, cliente_id) == cache

\* if cliente_id in clientes: del clientes[cliente_id]
BorraCache(cache, cliente_id) == [i \in DOMAIN cache \ {cliente_id} |-> cache[i]]

\* remove(archivo)
Remove(dir, archivo) == [f \in DOMAIN dir \ {archivo} |-> dir[f]]

EliminarCliente ==
    /\ pc = "menu"
    /\ pc' = "hecho"
    /\ \E cargados \in {Cargados} : \E lc \in CriteriosIn : \E lv \in ValoresIn(lc) :
       \E hallados \in {buscar_en(cargados, CriterioDe(lc), Strip(lv))} :
       \E rama \in {Seleccion(hallados)} :
            IF CriterioDe(lc) = ""
            THEN /\ entrada' = [op |-> "eliminar", lineas |-> <<lc>>]
                 /\ out' = {<<"Opcion no valida.", <<>>>>}
                 /\ UNCHANGED <<archivos, clientes>>
            ELSE /\ entrada' = [op |-> "eliminar", lineas |-> <<lc, lv>>]
                 /\ IF rama = "ninguno"
                    THEN /\ out' = {<<"No se encontraron clientes con ese criterio.", <<>>>>}
                         /\ UNCHANGED <<archivos, clientes>>
                    ELSE IF rama = "varios"
                    THEN /\ out' = {<<"Multiples clientes encontrados.", <<>>>>}
                                   \cup Lineas(hallados)
                         /\ UNCHANGED <<archivos, clientes>>
                    ELSE \E cliente_id \in {Primero(hallados)[1]} :
                         IF ~Existe(Ruta(cliente_id))
                         THEN /\ out' = {<<"Cliente no encontrado.", <<>>>>}
                              /\ UNCHANGED <<archivos, clientes>>
                         ELSE \/ /\ archivos' = Remove(archivos, Ruta(cliente_id))
                                 /\ clientes' = BorraCache(clientes, cliente_id)
                                 /\ out' = {<<"Cliente eliminado.", cliente_id>>}
                              \/ \* remove() raises OSError
                                 /\ out' = {<<"Error al eliminar el cliente", cliente_id>>}
                                 /\ UNCHANGED <<archivos, clientes>>
    /\ UNCHANGED <<contadorTxt, CONTADOR_CLIENTE, ahora, emitidos, phone,
                   phoneResult>>

ListarClientes ==
    /\ pc = "menu"
    /\ pc' = "hecho"
    /\ entrada' = [op |-> "listar", lineas |-> <<>>]
    /\ out' = IF Listdir = {} THEN {<<"No hay clientes registrados.", <<>>>>}
              ELSE Lineas(Cargados)
    /\ UNCHANGED <<archivos, contadorTxt, CONTADOR_CLIENTE, clientes, ahora,
                   emitidos, phone, phoneResult>>

\* Top of the menu loop: the menu is printed and the next option awaited.
Menu ==
    /\ pc = "hecho"
    /\ pc' = "menu"
    /\ entrada' = [op |-> "menu", lineas |-> <<>>]
    /\ out' = {<<"=== Gestion de Clientes Sky ===", <<>>>>}
    /\ UNCHANGED <<archivos, contadorTxt, CONTADOR_CLIENTE, clientes, ahora,
                   emitidos, phone, phoneResult>>

Next ==
    \/ StartUp
    \/ Menu
    \/ Salir
    \/ OpcionInvalida
    \/ AvanzaDia
    \/ CrearCliente
    \/ LeerCliente
    \/ ModificarCliente
    \/ EliminarCliente
    \/ ListarClientes

Spec == Init /\ [][Next]_vars

\* ------------------------------------------------- validate_phone on its own

\* The characters the arguments of validate_phone are built from: a digit, a
\* letter, punctuation, a blank and the newline.
AlfabetoTelefono == {"7", "a", "-", " ", "\n"}

\* n digits
SoloDigitos(n) == [i \in 1..n |-> Digitos[((7 * i) % 10) + 1]]

\* Digit strings of every length up to MaxTelefono, and the same strings with
\* one position replaced by each character of the alphabet.
TelefonosIn ==
    {SoloDigitos(n) : n \in 0..MaxTelefono}
    \cup {[SoloDigitos(n) EXCEPT ![i] = c] :
            n \in 1..MaxTelefono, i \in 1..MaxTelefono, c \in AlfabetoTelefono}

InitValidate ==
    /\ archivos = SinArchivos
    /\ contadorTxt = [existe |-> FALSE, texto |-> <<>>]
    /\ CONTADOR_CLIENTE = 0
    /\ clientes = SinClientes
    /\ ahora = [anio |-> 2025, mes |-> 6, dia |-> 2, hora |-> 9, minuto |-> 30, segundo |-> 0]
    /\ pc = "apagado"
    /\ entrada = [op |-> "ninguna", lineas |-> <<>>]
    /\ out = {}
    /\ emitidos = <<>>
    /\ phone \in TelefonosIn
    /\ phoneResult = "pendiente"

ValidatePhone ==
    /\ phoneResult = "pendiente"
    /\ phoneResult' = IF validate_phone(phone) THEN "true" ELSE "false"
    /\ UNCHANGED <<archivos, contadorTxt, CONTADOR_CLIENTE, clientes, ahora, pc,
                   entrada, out, emitidos, phone>>

NextValidate == ValidatePhone

SpecValidate == InitValidate /\ [][NextValidate]_vars

\* ------------------------------------------------------------------ claims

\* The step in which the menu operation `op` runs from prompt to return.
Paso(op) == pc = "menu" /\ pc' = "hecho" /\ entrada'.op = op

\* The state right after the menu operation `op` returned.
Tras(op) == pc = "hecho" /\ entrada.op = op

\* The answers of a create pass every validation of the specification.
PasaValidacion(lineas) ==
    /\ Len(lineas) = 4
    /\ Strip(lineas[1]) # <<>>
    /\ Strip(lineas[2]) # <<>>
    /\ Capitalize(Strip(lineas[3])) \in {<<"P", "e", "r", "s", "o", "n", "a">>, <<"N", "e", "g", "o", "c", "i", "o">>}
    /\ validate_phone(Strip(lineas[4])) \/ validate_email(Strip(lineas[4]))

\* The loadable records of the store, as (cliente_id, record) pairs computed
\* from the files alone.
Registros ==
    {<<SubSeq(f, Len(PREFIJO) + 1, Len(f) - Len(SUFIJO)), archivos[f].datos>> :
        f \in {g \in DOMAIN archivos : archivos[g].json}}

IsPrefix(s, t) == Len(s) <= Len(t) /\ SubSeq(t, 1, Len(s)) = s

\* INITIALS_YYYYMMDD of the create whose answers are `lineas`.
BaseEsperada(lineas) ==
    <<UpperChar(Strip(lineas[1])[1]), UpperChar(Strip(lineas[2])[1])>>
    \o <<"_">> \o FechaId(ahora)

\* C1: a create never overwrites or removes an existing record file; when it
\* persists a record, the file is new, and it is named by the base identifier
\* INITIALS_YYYYMMDD when no file holds the base, and by the base with suffix
\* _1 when only the base is held.
C1_IdentificadorUnico ==
    [][Paso("crear") =>
        /\ \A f \in DOMAIN archivos :
              f \in DOMAIN archivos' /\ archivos'[f] = archivos[f]
        /\ \A m \in out' : m[1] = "Cliente guardado exitosamente." =>
              /\ Ruta(m[2]) \notin DOMAIN archivos
              /\ DOMAIN archivos' = DOMAIN archivos \cup {Ruta(m[2])}
              /\ LET base == BaseEsperada(entrada'.lineas)
                 IN  IF Ruta(base) \notin DOMAIN archivos THEN m[2] = base
                     ELSE IF Ruta(base \o <<"_", "1">>) \notin DOMAIN archivos
                          THEN m[2] = base \o <<"_", "1">>
                     ELSE m[2] \notin {base, base \o <<"_", "1">>}
    ]_vars

\* Witness of C1: a create has just persisted AP_20250602_1 while AP_20250602
\* is held by another record.
C1_Testigo ==
    /\ Tras("crear")
    /\ <<"Cliente guardado exitosamente.", <<"A", "P", "_", "2", "0", "2", "5", "0", "6", "0", "2", "_", "1">>>> \in out
    /\ Ruta(<<"A", "P", "_", "2", "0", "2", "5", "0", "6", "0", "2">>) \in DOMAIN archivos

\* C2: the counter grows by exactly one in a create that passes validation and
\* is left alone by every other operation; a number is issued only once its
\* value is in the counter file; the issued numbers are strictly increasing
\* across deletes and restarts; no two persisted records share a number; and
\* the first number issued is C001.
C2_NumerosCrecientes ==
    /\ [](\A i, j \in 1..Len(emitidos) :
            i < j => NumeroDe(emitidos[i]) < NumeroDe(emitidos[j]))
    /\ [][(emitidos' # emitidos /\ CONTADOR_CLIENTE = 0) =>
            emitidos'[Len(emitidos')] = <<"C", "0", "0", "1">>]_vars
    /\ [](\A p, q \in Registros :
            p[2].numero_cliente = q[2].numero_cliente => p[1] = q[1])
    /\ [][(pc = "menu" /\ pc' = "hecho") =>
            /\ CONTADOR_CLIENTE' =
                 IF entrada'.op = "crear" /\ PasaValidacion(entrada'.lineas)
                 THEN CONTADOR_CLIENTE + 1 ELSE CONTADOR_CLIENTE
            /\ emitidos' # emitidos =>
                 /\ entrada'.op = "crear"
                 /\ Len(emitidos') = Len(emitidos) + 1
                 /\ contadorTxt'.existe
                 /\ ParseInt(contadorTxt'.texto) = NumeroDe(emitidos'[Len(emitidos')])
                 /\ CONTADOR_CLIENTE' = NumeroDe(emitidos'[Len(emitidos')])
      ]_vars

\* Witness of C2: after a restart, with the first record deleted, a create has
\* just been issued C002.
C2_Testigo ==
    /\ Tras("crear")
    /\ emitidos = <<<<"C", "0", "0", "1">>, <<"C", "0", "0", "2">>>>
    /\ DOMAIN clientes # {}
    /\ \A p \in Registros : p[1] \in DOMAIN clientes
    /\ Cardinality(Registros) = 1

\* C3: a create that fails validation changes neither the record files, nor
\* the counter, nor the counter file, nor the in-memory cache.
C3_ValidacionSinEfecto ==
    [][(Paso("crear") /\ ~PasaValidacion(entrada'.lineas)) =>
        UNCHANGED <<archivos, contadorTxt, CONTADOR_CLIENTE, clientes>>]_vars

\* Witness of C3: a create has just been rejected for its contact, on a store
\* that holds a record.
C3_Testigo ==
    /\ Tras("crear")
    /\ Len(entrada.lineas) = 4
    /\ ~PasaValidacion(entrada.lineas)
    /\ Registros # {}
    /\ DOMAIN clientes # {}

\* C4 (as claimed): after guardar_cliente reported a write error, the operation
\* does not report success.
C4_FalloDeEscrituraAborta ==
    (\E m \in out : m[1] = "Error al guadar al cliente") =>
        \A m \in out : m[1] \notin {"Cliente creado con ID", "Servicio agregado al cliente"}

\* The single match of the search an update or delete made with `lineas`.
Hallados(lineas) == buscar_clientes(CriterioDe(lineas[1]), Strip(lineas[2]))

\* The effect the specification gives an update on the record files.
ConServicio(dir, cliente_id, servicio) ==
    [dir EXCEPT ![Ruta(cliente_id)].datos.servicios = Append(@, servicio)]

\* Across every step, a loadable record that stays loadable keeps its
\* services as a prefix of its new list.
SoloCrece ==
    \A f \in DOMAIN archivos \cap DOMAIN archivos' :
        (archivos[f].json /\ archivos'[f].json) =>
            IsPrefix(archivos[f].datos.servicios, archivos'[f].datos.servicios)

C6_EliminarQuita ==
    /\ [](Tras("eliminar") =>
            \A m \in out : m[1] = "Cliente eliminado." =>
                buscar_clientes("id", m[2]) = {} /\ m[2] \notin DOMAIN clientes)
    /\ [][(Paso("eliminar") /\ Len(entrada'.lineas) = 2
           /\ Cardinality(Hallados(entrada'.lineas)) = 1
           /\ Ruta(Primero(Hallados(entrada'.lineas))[1]) \notin DOMAIN archivos') =>
             LET cliente_id == Primero(Hallados(entrada'.lineas))[1]
             IN  /\ <<"Cliente eliminado.", cliente_id>> \in out'
                 /\ cliente_id \notin DOMAIN clientes'
                 /\ DOMAIN archivos' = DOMAIN archivos \ {Ruta(cliente_id)}
                 /\ \A f \in DOMAIN archivos' : archivos'[f] = archivos[f]
                 /\ \A i \in DOMAIN clientes' :
                       i \in DOMAIN clientes /\ clientes'[i] = clientes[i]
                 /\ DOMAIN clientes \ DOMAIN clientes' \subseteq {cliente_id}
                 /\ UNCHANGED <<contadorTxt, CONTADOR_CLIENTE>>
         ]_vars

\* Witness of C6: a delete has just removed a record created in this session,
\* and another record remains stored and cached.
C6_Testigo ==
    /\ Tras("eliminar")
    /\ \E m \in out : m[1] = "Cliente eliminado." /\ Ruta(m[2]) \notin DOMAIN archivos
                      /\ m[2] \notin DOMAIN clientes
    /\ Registros # {}
    /\ DOMAIN clientes # {}
    /\ Len(emitidos) = 2

\* C7: an update or a delete whose search does not return exactly one match
\* (or whose criterion is invalid) changes no record file, nor the counter,
\* nor the cache.
C7_AmbiguedadNoModifica ==
    [][((Paso("modificar") \/ Paso("eliminar"))
        /\ (Len(entrada'.lineas) < 2 \/ Cardinality(Hallados(entrada'.lineas)) # 1)) =>
          UNCHANGED <<archivos, contadorTxt, CONTADOR_CLIENTE, clientes>>]_vars

\* Witness of C7: an update by name has just matched two records.
C7_Testigo ==
    /\ Tras("modificar")
    /\ Cardinality(Hallados(entrada.lineas)) = 2
    /\ <<"Multiples clientes encontrados.", <<>>>> \in out

\* C8 (as claimed): listing a store without client records prints
\* "No hay clientes registrados.".
C8_ListarSinRegistros ==
    (Tras("listar") /\ DOMAIN archivos = {}) =>
        <<"No hay clientes registrados.", <<>>>> \in out

\* C9 (as claimed): validate_phone accepts exactly the strings of 10 decimal
\* digits.
C9_TelefonoDiezDigitos ==
    phoneResult # "pendiente" =>
        (phoneResult = "true" <=>
            (Len(phone) = 10 /\ \A i \in 1..Len(phone) : phone[i] \in Range(Digitos)))

\* The values for which a search by identifier or by number can match: the
\* identifiers and numbers of the stored records, in either case.
ValoresDeBusqueda ==
    UNION {{p[1], p[2].numero_cliente, Lower(p[2].numero_cliente)} : p \in Registros}

\* C10: find by identifier and find by customer number return at most one
\* record, and an update or delete selected by either never reports multiple
\* matches.
C10_IdYNumeroResuelven ==
    /\ \A cargados \in {Cargados} : \A v \in ValoresDeBusqueda :
          /\ Cardinality(buscar_en(cargados, "id", v)) <= 1
          /\ Cardinality(buscar_en(cargados, "numero", v)) <= 1
    /\ ((Tras("modificar") \/ Tras("eliminar"))
        /\ CriterioDe(entrada.lineas[1]) \in {"id", "numero"}) =>
          <<"Multiples clientes encontrados.", <<>>>> \notin out

\* Witness of C10: two records match the same name, and an update by customer
\* number has just selected one of them.
C10_Testigo ==
    /\ Tras("modificar")
    /\ CriterioDe(entrada.lineas[1]) = "numero"
    /\ \E m \in out : m[1] = "Servicio agregado al cliente"
    /\ Cardinality(buscar_clientes("nombre", <<"a">>)) = 2

====
